---- MODULE Spec2Model ----
(***************************************************************************)
(* Model of the fermi-notifier service: the response parser and the        *)
(* generation client (src/src/gemini.rs), the notification dispatcher      *)
(* (src/src/ntfy.rs), the error taxonomy and its HTTP mapping              *)
(* (src/src/error.rs, src/src/main.rs) and the trigger handler             *)
(* (src/src/main.rs).                                                      *)
(*                                                                         *)
(* Text is a sequence of characters (one-character strings).  An optional  *)
(* value is a sequence of length at most one: None is << >> and Some(x)    *)
(* is << x >>.                                                             *)
(***************************************************************************)
EXTENDS Integers, Sequences, FiniteSets, TLC

VARIABLES
    \* ---- trigger handler (one entry per invocation) ----
    config,     \* the immutable configuration shared by all invocations
    pc,         \* where each invocation's task is suspended
    genOut,     \* what the generation API answered (None until it has)
    est,        \* the FermiEstimation of the invocation (None until parsed)
    probOut,    \* what ntfy answered to the problem notification
    solOut,     \* what ntfy answered to the solution notification
    calls,      \* the outbound calls the invocation has issued, in order
    herr,       \* the AppError the handler returned (None if none)
    resp,       \* the HTTP response of the invocation (None until sent)
    \* ---- parser run on its own ----
    pForm,      \* how the text was built: "free" or "wellformed"
    pP, pS,     \* the problem and solution content of a well-formed text
    pText,      \* the text handed to the parser
    pRes,       \* the parser's result (None until it has run)
    \* ---- send_notification run on its own ----
    nPrefix, nBody, nDelay,   \* its arguments
    nUp,        \* what ntfy answers
    nSent,      \* the requests it has issued
    nRes,       \* its result (None until it has returned)
    \* ---- error_response run on its own ----
    eErr,       \* an AppError
    eResp       \* its HTTP response (None until mapped)

hvars == <<config, pc, genOut, est, probOut, solOut, calls, herr, resp>>
pvars == <<pForm, pP, pS, pText, pRes>>
nvars == <<nPrefix, nBody, nDelay, nUp, nSent, nRes>>
evars == <<eErr, eResp>>
vars == <<hvars, pvars, nvars, evars>>

----------------------------------------------------------------------------
(* Bounds of the model *)

NumInv == 2          \* concurrent invocations of the trigger
MaxPieces == 5       \* pieces a free-form generated text is made of
MaxContent == 2      \* pieces the content of a well-formed text is made of

----------------------------------------------------------------------------
(* Options and results *)

None == << >>
Some(x) == << x >>
IsSome(o) == Len(o) = 1
Get(o) == o[1]

Ok(v) == [ok |-> TRUE, val |-> v]
Err(e) == [ok |-> FALSE, err |-> e]

----------------------------------------------------------------------------
(* Text *)

WhiteSpace == {" ", "\n", "\t", "\r"}

RECURSIVE TrimStart(_)
TrimStart(s) ==
    IF s # << >> /\ Head(s) \in WhiteSpace THEN TrimStart(Tail(s)) ELSE s

RECURSIVE TrimEnd(_)
TrimEnd(s) ==
    IF s # << >> /\ s[Len(s)] \in WhiteSpace
    THEN TrimEnd(SubSeq(s, 1, Len(s) - 1))
    ELSE s

Trim(s) == TrimEnd(TrimStart(s))

StartsWith(s, p) ==
    /\ Len(p) <= Len(s)
    /\ \A k \in 1..Len(p) : s[k] = p[k]

EndsWith(s, c) == s # << >> /\ s[Len(s)] = c

StripPrefix(s, p) ==
    IF StartsWith(s, p) THEN Some(SubSeq(s, Len(p) + 1, Len(s))) ELSE None

UnwrapOr(o, d) == IF IsSome(o) THEN Get(o) ELSE d

MatchAt(s, p, i) == \A k \in 1..Len(p) : s[i + k - 1] = p[k]

\* The start of the first occurrence of p in s at or after i, or 0.
Find(s, p, i) ==
    LET starts == { j \in i..(Len(s) - Len(p) + 1) : MatchAt(s, p, j) } IN
    IF starts = {} THEN 0
    ELSE CHOOSE j \in starts : \A k \in starts : j <= k

\* str::split: the segments between the matches of p, found left to right,
\* each match starting where the previous one ended.
RECURSIVE Split(_, _)
Split(s, p) ==
    LET i == Find(s, p, 1) IN
    IF i = 0 THEN << s >>
    ELSE << SubSeq(s, 1, i - 1) >> \o Split(SubSeq(s, i + Len(p), Len(s)), p)

RECURSIVE Concat(_)
Concat(ss) == IF ss = << >> THEN << >> ELSE Head(ss) \o Concat(Tail(ss))

----------------------------------------------------------------------------
(* gemini.rs: the text contract and the parser *)

PROBLEM_MARKER == <<"*", "*", "P", "r", "o", "b", "l", "e", "m", ":", "*", "*">>
SOLUTION_MARKER == <<"*", "*", "S", "o", "l", "u", "t", "i", "o", "n", ":", "*", "*">>
SEPARATOR_MARKER ==
    <<"-", "-", "-", "S", "O", "L", "U", "T", "I", "O", "N", "_",
      "S", "E", "P", "A", "R", "A", "T", "O", "R", "-", "-", "-">>

ParseError(m) == [kind |-> "ParseError", msg |-> m]
GeminiApi(m) == [kind |-> "GeminiApi", msg |-> m]
Reqwest(m) == [kind |-> "Reqwest", msg |-> m]
Ntfy(m) == [kind |-> "Ntfy", msg |-> m]

PartCountError(n) == ParseError([text |-> "Expected 2 parts, found", n |-> n])
MissingMarkerError == ParseError([text |-> "Missing expected marker(s)"])
EmptyContentError == ParseError([text |-> "Parsed problem or solution empty."])

FermiEstimation(p, s) == [problem |-> p, solution |-> s]

SplitParts(generated_text) == Split(generated_text, SEPARATOR_MARKER)

\* PartsOk accepting more than two segments.
PartsOkAtLeastTwo(parts) == Len(parts) >= 2

PartsOk(parts) == Len(parts) = 2

\* MarkersOk with && for ||: rejected only when both markers are missing.
MarkersOkEither(problem_part, solution_part) ==
    ~ ( /\ ~ StartsWith(problem_part, PROBLEM_MARKER)
        /\ ~ StartsWith(solution_part, SOLUTION_MARKER) )

MarkersOk(problem_part, solution_part) ==
    ~ ( \/ ~ StartsWith(problem_part, PROBLEM_MARKER)
        \/ ~ StartsWith(solution_part, SOLUTION_MARKER) )

\* Clean without the trim that follows strip_prefix.
CleanNoTrim(part, marker) == UnwrapOr(StripPrefix(part, marker), part)

\* Clean with the marker left in place.
CleanKeepsMarker(part, marker) == Trim(part)

Clean(part, marker) == Trim(UnwrapOr(StripPrefix(part, marker), part))

\* ContentOk with && for ||: rejected only when both contents are empty.
ContentOkEither(clean_problem, clean_solution) ==
    ~ (clean_problem = << >> /\ clean_solution = << >>)

ContentOk(clean_problem, clean_solution) ==
    ~ (clean_problem = << >> \/ clean_solution = << >>)

\* Lines 123-165 of generate_fermi_problem_and_solution.
Parse(generated_text) ==
    LET parts == SplitParts(generated_text) IN
    IF ~ PartsOk(parts) THEN Err(PartCountError(Len(parts)))
    ELSE
      LET problem_part == Trim(parts[1])
          solution_part == Trim(parts[2])
      IN
      IF ~ MarkersOk(problem_part, solution_part) THEN Err(MissingMarkerError)
      ELSE
        LET clean_problem == Clean(problem_part, PROBLEM_MARKER)
            clean_solution == Clean(solution_part, SOLUTION_MARKER)
        IN
        IF ~ ContentOk(clean_problem, clean_solution) THEN Err(EmptyContentError)
        ELSE Ok(FermiEstimation(clean_problem, clean_solution))

----------------------------------------------------------------------------
(* error.rs and main.rs: the error taxonomy and its HTTP mapping *)

ErrorKinds ==
    {"Config", "Reqwest", "Serde", "GeminiApi", "Ntfy", "Io", "ParseError",
     "Internal"}

InternalServerError(category) ==
    [status |-> 500, json |-> TRUE, body |-> category, args |-> << >>]
BadGateway(category) ==
    [status |-> 502, json |-> TRUE, body |-> category, args |-> << >>]

\* error_response with the transport error taken for an internal one.
error_response_reqwest_500(e) ==
    CASE e.kind = "Config" -> InternalServerError("Configuration Error")
      [] e.kind = "Reqwest" -> InternalServerError("Upstream Service Error")
      [] e.kind = "Serde" -> InternalServerError("Data Processing Error")
      [] e.kind = "GeminiApi" -> BadGateway("Gemini API Error")
      [] e.kind = "Ntfy" -> BadGateway("Notification Service Error")
      [] e.kind = "Io" -> InternalServerError("IO Error")
      [] e.kind = "ParseError" -> InternalServerError("Content Parsing Error")
      [] e.kind = "Internal" -> InternalServerError("Internal Server Error")

\* error_response answering with the error's own message (format!("{}", e)).
error_response_verbose(e) ==
    IF e.kind \in {"GeminiApi", "Ntfy"} /\ "body" \in DOMAIN e.msg
    THEN [status |-> 502, json |-> TRUE, body |-> e.msg.text, args |-> << e.msg.body >>]
    ELSE [status |-> 500, json |-> TRUE, body |-> "Internal Server Error", args |-> << >>]

\* impl ResponseError for AppError: the match on the error's kind.
error_response(e) ==
    CASE e.kind = "Config" -> InternalServerError("Configuration Error")
      [] e.kind = "Reqwest" -> BadGateway("Upstream Service Error")
      [] e.kind = "Serde" -> InternalServerError("Data Processing Error")
      [] e.kind = "GeminiApi" -> BadGateway("Gemini API Error")
      [] e.kind = "Ntfy" -> BadGateway("Notification Service Error")
      [] e.kind = "Io" -> InternalServerError("IO Error")
      [] e.kind = "ParseError" -> InternalServerError("Content Parsing Error")
      [] e.kind = "Internal" -> InternalServerError("Internal Server Error")

----------------------------------------------------------------------------
(* What an upstream service answers to one request *)

Transport == [kind |-> "transport"]
Http(status, body) == [kind |-> "http", status |-> status, body |-> body]

is_success(status) == status >= 200 /\ status <= 299

\* response.text().await.unwrap_or_else(..): the body, or a fixed text when
\* it cannot be read.  A readable body is Some(text).
FailedToReadErrorBody ==
    <<"F", "a", "i", "l", "e", "d", " ", "t", "o", " ", "r", "e", "a", "d", " ",
      "e", "r", "r", "o", "r", " ", "b", "o", "d", "y">>
error_text(body) == UnwrapOr(body.raw, FailedToReadErrorBody)

----------------------------------------------------------------------------
(* ntfy.rs: send_notification *)

TitleMax == 100

FermiNotification ==
    <<"F", "e", "r", "m", "i", " ", "N", "o", "t", "i", "f", "i", "c", "a", "t",
      "i", "o", "n">>

\* str::lines().next(): nothing for the empty text; otherwise the text up to
\* the first "\n", without the "\r" that may precede that "\n".
FirstLine(message_body) ==
    IF message_body = << >> THEN None
    ELSE
      LET i == Find(message_body, <<"\n">>, 1) IN
      IF i = 0 THEN Some(message_body)
      ELSE
        LET line == SubSeq(message_body, 1, i - 1) IN
        IF EndsWith(line, "\r") THEN Some(SubSeq(line, 1, Len(line) - 1))
        ELSE Some(line)

\* The bytes of a character in UTF-8; "U+00E9" stands for the character of
\* that code point, which takes two.
Utf8Len(c) == IF c = "U+00E9" THEN 2 ELSE 1

\* Take counting bytes: the longest prefix of at most n bytes.
TakeBytes(s, n) ==
    LET fits == { k \in 0..Len(s) :
                    k + Cardinality({ j \in 1..k : Utf8Len(s[j]) > 1 }) <= n }
    IN SubSeq(s, 1, CHOOSE k \in fits : \A m \in fits : m <= k)

\* chars().take(n).collect(): the first n characters.
Take(s, n) == IF Len(s) <= n THEN s ELSE SubSeq(s, 1, n)

Title(title_prefix, message_body) ==
    LET first_line == Trim(UnwrapOr(FirstLine(message_body), FermiNotification))
        title == title_prefix \o first_line
    IN Take(title, TitleMax)

DelaySuffixOk(d) ==
    EndsWith(d, "s") \/ EndsWith(d, "m") \/ EndsWith(d, "h") \/ EndsWith(d, "d")

\* XDelay without the suffix check: every non-empty token is forwarded.
XDelayUnchecked(delay) ==
    IF IsSome(delay) /\ Get(delay) # << >> THEN Some(Get(delay)) ELSE None

\* The X-Delay header of the request: Some(d) when it is set, None when not.
XDelay(delay) ==
    IF IsSome(delay) /\ Get(delay) # << >> /\ DelaySuffixOk(Get(delay))
    THEN Some(Get(delay))
    ELSE None

NtfyRequest(cfg, title_prefix, message_body, delay) ==
    [ svc |-> "ntfy",
      url |-> [base |-> "https://ntfy.sh/", topic |-> cfg.ntfy_topic],
      title |-> Title(title_prefix, message_body),
      tags |-> "brain,puzzle",
      body |-> message_body,
      xdelay |-> XDelay(delay) ]

\* What send_notification returns once ntfy has answered the request.
NtfyResult(cfg, answer) ==
    IF answer.kind = "transport"
    THEN Err(Reqwest([text |-> "error sending request",
                      url |-> [base |-> "https://ntfy.sh/", topic |-> cfg.ntfy_topic]]))
    ELSE IF ~ is_success(answer.status)
    THEN Err(Ntfy([text |-> "Notification request failed with status",
                   status |-> answer.status,
                   body |-> error_text(answer.body)]))
    ELSE Ok(<< >>)

----------------------------------------------------------------------------
(* gemini.rs: generate_fermi_problem_and_solution *)

GEMINI_API_URL ==
    "https://generativelanguage.googleapis.com/v1beta/models/gemini-2.0-flash:generateContent"

GeminiUrl(cfg) == [base |-> GEMINI_API_URL, key |-> cfg.gemini_api_key]

GeminiRequest(cfg) ==
    [ svc |-> "gemini",
      url |-> GeminiUrl(cfg),
      prompt |-> <<PROBLEM_MARKER, SEPARATOR_MARKER, SOLUTION_MARKER>>,
      max_output_tokens |-> 5000,
      temperature_tenths |-> 18 ]

\* The JSON document of a response body, as far as GeminiResponse reads it:
\* each of the keys candidates, content/parts and text is there or is not.
Part(text) == [text |-> Some(text)]
PartNoText == [text |-> None]
Candidate(parts) == [parts |-> Some(parts)]
CandidateNoContent == [parts |-> None]
Document(candidates) == [candidates |-> Some(candidates)]
DocumentNoCandidates == [candidates |-> None]

\* serde's derived Deserialize for GeminiResponse: no field is optional and
\* none has a default, so a missing key anywhere in the document fails the
\* whole document. The value is the candidates, each the texts of its parts.
Deserialize(doc) ==
    IF ~ IsSome(doc.candidates) THEN None
    ELSE LET cs == Get(doc.candidates) IN
      IF \E k \in 1..Len(cs) : ~ IsSome(cs[k].parts) THEN None
      ELSE IF \E k \in 1..Len(cs) :
                 \E m \in 1..Len(Get(cs[k].parts)) : ~ IsSome(Get(cs[k].parts)[m].text)
      THEN None
      ELSE Some([k \in 1..Len(cs) |->
                   [m \in 1..Len(Get(cs[k].parts)) |-> Get(Get(cs[k].parts)[m].text)]])

\* response.json::<GeminiResponse>() on a body: doc is None for a body that
\* is not JSON.
ResponseJson(body) ==
    IF ~ IsSome(body.doc) THEN None ELSE Deserialize(Get(body.doc))

\* candidates.first().and_then(|c| c.content.parts.first()).map(trim):
\* candidates is a sequence of candidates, each the sequence of its parts' texts.
ExtractText(candidates) ==
    IF candidates = << >> THEN None
    ELSE IF Head(candidates) = << >> THEN None
    ELSE Some(Trim(Head(Head(candidates))))

\* What generate_fermi_problem_and_solution returns once the API has answered.
Generate(cfg, answer) ==
    IF answer.kind = "transport"
    THEN Err(Reqwest([text |-> "error sending request", url |-> GeminiUrl(cfg)]))
    ELSE IF ~ is_success(answer.status)
    THEN Err(GeminiApi([text |-> "API request failed with status",
                        status |-> answer.status,
                        body |-> error_text(answer.body)]))
    ELSE IF ~ IsSome(ResponseJson(answer.body))
    THEN Err(Reqwest([text |-> "error decoding response body", url |-> GeminiUrl(cfg)]))
    ELSE
      LET generated_text == ExtractText(Get(ResponseJson(answer.body))) IN
      IF ~ IsSome(generated_text)
      THEN Err(GeminiApi([text |-> "No text content found in Gemini response"]))
      ELSE Parse(Get(generated_text))

----------------------------------------------------------------------------
(* main.rs: the trigger handler, handle_fermi_request *)

SOLUTION_DELAY == <<"1", "0", "m">>

ProblemPrefix == <<"P", "r", "o", "b", "l", "e", "m", ":", " ">>
SolutionPrefix == <<"S", "o", "l", "u", "t", "i", "o", "n", ":", " ">>

\* HttpResponse::Ok().body(format!(".. {} delay.", SOLUTION_DELAY))
OkResponse ==
    [ status |-> 200, json |-> FALSE,
      body |-> "Fermi problem sent, solution scheduled for {} delay.",
      args |-> << SOLUTION_DELAY >> ]

\* Step 2: ntfy::send_notification(.., "Problem: ", &problem, None)
ProblemRequest(cfg, estimation) ==
    NtfyRequest(cfg, ProblemPrefix, estimation.problem, None)

\* SolutionRequest with None for the delay.
SolutionRequestNoDelay(cfg, estimation) ==
    NtfyRequest(cfg, SolutionPrefix, estimation.solution, None)

\* Step 3: ntfy::send_notification(.., "Solution: ", &solution, Some(SOLUTION_DELAY))
SolutionRequest(cfg, estimation) ==
    NtfyRequest(cfg, SolutionPrefix, estimation.solution, Some(SOLUTION_DELAY))

----------------------------------------------------------------------------
(* The inputs of the handler: configurations and upstream answers *)

Invs == 1..NumInv

Configs ==
    { [gemini_api_key |-> k, ntfy_topic |-> "fermi", port |-> 8080] :
        k \in {"key-A", "key-B"} }

Golf == <<"g", "o", "l", "f", "?">>
Steps == <<"S", "t", "e", "p", "\n", "5", "0", "0">>

TextOk ==
    Concat(<< PROBLEM_MARKER, <<" ">>, Golf, <<"\n">>, SEPARATOR_MARKER, <<"\n">>,
              SOLUTION_MARKER, <<" ">>, Steps >>)
TextPadded == <<"\n", " ">> \o TextOk \o <<" ", "\n">>
TextNoSeparator == Concat(<< PROBLEM_MARKER, <<" ">>, Golf >>)
TextNoMarker == Concat(<< Golf, SEPARATOR_MARKER, SOLUTION_MARKER, Steps >>)

ErrorBodies ==
    { Some(<<"q", "u", "o", "t", "a">>), Some(<<"k", "e", "y", "-", "A">>), None }

NoJson == [raw |-> Some(<<"<", ">">>), doc |-> None]
JsonDocument(doc) == [raw |-> Some(<<"{", "}">>), doc |-> Some(doc)]
\* The body whose document has every key, with these texts.
Json(candidates) ==
    JsonDocument(Document([k \in 1..Len(candidates) |->
        Candidate([m \in 1..Len(candidates[k]) |-> Part(candidates[k][m])])]))

\* Documents in which a key is missing: no candidates key, a first part
\* without text, and a second candidate without content after a complete one.
IncompleteDocuments ==
    { DocumentNoCandidates,
      Document(<< Candidate(<< PartNoText >>) >>),
      Document(<< Candidate(<< Part(TextOk) >>), CandidateNoContent >>) }

Envelopes ==
    { << >>,
      << << >> >>,
      << <<TextOk>> >>,
      << <<TextPadded, TextNoSeparator>>, <<TextNoSeparator>> >>,
      << <<TextNoSeparator, TextOk>>, <<TextOk>> >>,
      << <<TextNoMarker>> >> }

GeminiAnswers ==
    {Transport}
      \cup { Http(500, [raw |-> b, doc |-> None]) : b \in ErrorBodies }
      \cup { Http(429, [raw |-> Some(<<"q", "u", "o", "t", "a">>), doc |-> None]) }
      \cup { Http(503, Json(<< <<TextOk>> >>)) }
      \cup { Http(200, NoJson) }
      \cup { Http(200, Json(c)) : c \in Envelopes }
      \cup { Http(200, JsonDocument(d)) : d \in IncompleteDocuments }

NtfyAnswers ==
    {Transport}
      \cup { Http(200, [raw |-> Some(<< >>)]) }
      \cup { Http(429, [raw |-> b]) : b \in {Some(<<"s", "l", "o", "w">>), None} }
      \cup { Http(500, [raw |-> Some(<<"d", "o", "w", "n">>)]) }

----------------------------------------------------------------------------
(* The variables a specification does not use stay as they are here *)

HandlerIdle ==
    /\ config = [gemini_api_key |-> "key-A", ntfy_topic |-> "fermi", port |-> 8080]
    /\ pc = [i \in Invs |-> "idle"]
    /\ genOut = [i \in Invs |-> None]
    /\ est = [i \in Invs |-> None]
    /\ probOut = [i \in Invs |-> None]
    /\ solOut = [i \in Invs |-> None]
    /\ calls = [i \in Invs |-> << >>]
    /\ herr = [i \in Invs |-> None]
    /\ resp = [i \in Invs |-> None]

ParserIdle ==
    /\ pForm = "none" /\ pP = << >> /\ pS = << >> /\ pText = << >> /\ pRes = None

NotifyIdle ==
    /\ nPrefix = << >> /\ nBody = << >> /\ nDelay = None /\ nUp = Transport
    /\ nSent = << >> /\ nRes = None

ErrorIdle ==
    /\ eErr = [kind |-> "Internal", msg |-> [text |-> ""]] /\ eResp = None

----------------------------------------------------------------------------
(* The handler as a state machine.  The task of an invocation is suspended  *)
(* at each of its three awaits; one action runs it from one await to the    *)
(* next, or to its response.                                                *)

Init ==
    /\ config \in Configs
    /\ pc = [i \in Invs |-> "idle"]
    /\ genOut = [i \in Invs |-> None]
    /\ est = [i \in Invs |-> None]
    /\ probOut = [i \in Invs |-> None]
    /\ solOut = [i \in Invs |-> None]
    /\ calls = [i \in Invs |-> << >>]
    /\ herr = [i \in Invs |-> None]
    /\ resp = [i \in Invs |-> None]
    /\ ParserIdle /\ NotifyIdle /\ ErrorIdle

\* Fail ending every invocation in flight with the error of this one.
FailAbortsAll(i, e) ==
    /\ herr' = [j \in Invs |->
                  IF j = i \/ pc[j] \notin {"idle", "done"} THEN Some(e) ELSE herr[j]]
    /\ resp' = [j \in Invs |->
                  IF j = i \/ pc[j] \notin {"idle", "done"}
                  THEN Some(error_response(e)) ELSE resp[j]]
    /\ pc' = [j \in Invs |->
                IF j = i \/ pc[j] \notin {"idle", "done"} THEN "done" ELSE pc[j]]

\* Fail with the error swallowed: the handler answers 200 all the same.
FailSwallowed(i, e) ==
    /\ herr' = [herr EXCEPT ![i] = Some(e)]
    /\ resp' = [resp EXCEPT ![i] = Some(OkResponse)]
    /\ pc' = [pc EXCEPT ![i] = "done"]

\* What an invocation does when a step has returned the error e: the ? operator
\* returns it from the handler and actix maps it with error_response.
Fail(i, e) ==
    /\ herr' = [herr EXCEPT ![i] = Some(e)]
    /\ resp' = [resp EXCEPT ![i] = Some(error_response(e))]
    /\ pc' = [pc EXCEPT ![i] = "done"]

\* POST / arrives: the handler issues the generation request and awaits it.
Trigger(i) ==
    /\ pc[i] = "idle"
    /\ calls' = [calls EXCEPT ![i] = Append(@, GeminiRequest(config))]
    /\ pc' = [pc EXCEPT ![i] = "generating"]
    /\ UNCHANGED <<config, genOut, est, probOut, solOut, herr, resp>>
    /\ UNCHANGED <<pvars, nvars, evars>>

\* GenerationReturns with a retry: a failed generation call is issued once
\* more before the handler gives up.
GenerationReturnsRetry(i, answer) ==
    /\ pc[i] = "generating"
    /\ genOut' = [genOut EXCEPT ![i] = Some(answer)]
    /\ LET r == Generate(config, answer) IN
       IF r.ok
       THEN /\ est' = [est EXCEPT ![i] = Some(r.val)]
            /\ calls' = [calls EXCEPT ![i] = Append(@, ProblemRequest(config, r.val))]
            /\ pc' = [pc EXCEPT ![i] = "sending_problem"]
            /\ UNCHANGED <<herr, resp>>
       ELSE IF Len(calls[i]) < 2
       THEN /\ calls' = [calls EXCEPT ![i] = Append(@, GeminiRequest(config))]
            /\ UNCHANGED <<est, herr, resp, pc>>
       ELSE /\ Fail(i, r.err)
            /\ UNCHANGED <<est, calls>>
    /\ UNCHANGED <<config, probOut, solOut>>
    /\ UNCHANGED <<pvars, nvars, evars>>

\* GenerationReturns without the ? after step 1: a failed generation is
\* answered, and an empty problem is notified all the same.
GenerationReturnsNoAbort(i, answer) ==
    /\ pc[i] = "generating"
    /\ genOut' = [genOut EXCEPT ![i] = Some(answer)]
    /\ LET r == Generate(config, answer) IN
       IF r.ok
       THEN /\ est' = [est EXCEPT ![i] = Some(r.val)]
            /\ calls' = [calls EXCEPT ![i] = Append(@, ProblemRequest(config, r.val))]
            /\ pc' = [pc EXCEPT ![i] = "sending_problem"]
            /\ UNCHANGED <<herr, resp>>
       ELSE /\ Fail(i, r.err)
            /\ calls' = [calls EXCEPT ![i] =
                            Append(@, ProblemRequest(config, FermiEstimation(<< >>, << >>)))]
            /\ UNCHANGED est
    /\ UNCHANGED <<config, probOut, solOut>>
    /\ UNCHANGED <<pvars, nvars, evars>>

\* Step 1 returns: on success the problem notification is issued and awaited.
GenerationReturns(i, answer) ==
    /\ pc[i] = "generating"
    /\ genOut' = [genOut EXCEPT ![i] = Some(answer)]
    /\ LET r == Generate(config, answer) IN
       IF r.ok
       THEN /\ est' = [est EXCEPT ![i] = Some(r.val)]
            /\ calls' = [calls EXCEPT ![i] = Append(@, ProblemRequest(config, r.val))]
            /\ pc' = [pc EXCEPT ![i] = "sending_problem"]
            /\ UNCHANGED <<herr, resp>>
       ELSE /\ Fail(i, r.err)
            /\ UNCHANGED <<est, calls>>
    /\ UNCHANGED <<config, probOut, solOut>>
    /\ UNCHANGED <<pvars, nvars, evars>>

\* ProblemReturns without the ? after step 2: the solution is scheduled
\* whatever the problem notification returned.
ProblemReturnsNoAbort(i, answer) ==
    /\ pc[i] = "sending_problem"
    /\ probOut' = [probOut EXCEPT ![i] = Some(answer)]
    /\ calls' = [calls EXCEPT ![i] = Append(@, SolutionRequest(config, Get(est[i])))]
    /\ pc' = [pc EXCEPT ![i] = "sending_solution"]
    /\ UNCHANGED <<herr, resp>>
    /\ UNCHANGED <<config, genOut, est, solOut>>
    /\ UNCHANGED <<pvars, nvars, evars>>

\* Step 2 returns: on success the solution notification is issued and awaited.
ProblemReturns(i, answer) ==
    /\ pc[i] = "sending_problem"
    /\ probOut' = [probOut EXCEPT ![i] = Some(answer)]
    /\ LET r == NtfyResult(config, answer) IN
       IF r.ok
       THEN /\ calls' = [calls EXCEPT ![i] = Append(@, SolutionRequest(config, Get(est[i])))]
            /\ pc' = [pc EXCEPT ![i] = "sending_solution"]
            /\ UNCHANGED <<herr, resp>>
       ELSE /\ Fail(i, r.err)
            /\ UNCHANGED calls
    /\ UNCHANGED <<config, genOut, est, solOut>>
    /\ UNCHANGED <<pvars, nvars, evars>>

\* SolutionReturns answering a failed step 3 with a category of its own.
SolutionReturnsDistinct(i, answer) ==
    /\ pc[i] = "sending_solution"
    /\ solOut' = [solOut EXCEPT ![i] = Some(answer)]
    /\ LET r == NtfyResult(config, answer) IN
       IF r.ok
       THEN /\ resp' = [resp EXCEPT ![i] = Some(OkResponse)]
            /\ pc' = [pc EXCEPT ![i] = "done"]
            /\ UNCHANGED herr
       ELSE /\ herr' = [herr EXCEPT ![i] = Some(r.err)]
            /\ resp' = [resp EXCEPT ![i] = Some(BadGateway("Solution Scheduling Error"))]
            /\ pc' = [pc EXCEPT ![i] = "done"]
    /\ UNCHANGED <<config, genOut, est, probOut, calls>>
    /\ UNCHANGED <<pvars, nvars, evars>>

\* SolutionReturns with a local timer: after a successful step 3 the handler
\* waits for the delay before it answers, and nothing ends the wait.
SolutionReturnsWaits(i, answer) ==
    /\ pc[i] = "sending_solution"
    /\ solOut' = [solOut EXCEPT ![i] = Some(answer)]
    /\ LET r == NtfyResult(config, answer) IN
       IF r.ok
       THEN /\ pc' = [pc EXCEPT ![i] = "waiting_delay"]
            /\ UNCHANGED <<herr, resp>>
       ELSE Fail(i, r.err)
    /\ UNCHANGED <<config, genOut, est, probOut, calls>>
    /\ UNCHANGED <<pvars, nvars, evars>>

\* SolutionReturns with a retry: a failed solution notification is issued
\* once more before the handler gives up.
SolutionReturnsRetry(i, answer) ==
    /\ pc[i] = "sending_solution"
    /\ solOut' = [solOut EXCEPT ![i] = Some(answer)]
    /\ LET r == NtfyResult(config, answer) IN
       IF r.ok
       THEN /\ resp' = [resp EXCEPT ![i] = Some(OkResponse)]
            /\ pc' = [pc EXCEPT ![i] = "done"]
            /\ UNCHANGED <<herr, calls>>
       ELSE IF Len(calls[i]) < 4
       THEN /\ calls' = [calls EXCEPT ![i] = Append(@, SolutionRequest(config, Get(est[i])))]
            /\ UNCHANGED <<herr, resp, pc>>
       ELSE /\ Fail(i, r.err)
            /\ UNCHANGED calls
    /\ UNCHANGED <<config, genOut, est, probOut>>
    /\ UNCHANGED <<pvars, nvars, evars>>

\* Step 3 returns: on success the handler answers 200.
SolutionReturns(i, answer) ==
    /\ pc[i] = "sending_solution"
    /\ solOut' = [solOut EXCEPT ![i] = Some(answer)]
    /\ LET r == NtfyResult(config, answer) IN
       IF r.ok
       THEN /\ resp' = [resp EXCEPT ![i] = Some(OkResponse)]
            /\ pc' = [pc EXCEPT ![i] = "done"]
            /\ UNCHANGED herr
       ELSE Fail(i, r.err)
    /\ UNCHANGED <<config, genOut, est, probOut, calls>>
    /\ UNCHANGED <<pvars, nvars, evars>>

Next ==
    \E i \in Invs :
        \/ Trigger(i)
        \/ \E answer \in GeminiAnswers : GenerationReturns(i, answer)
        \/ \E answer \in NtfyAnswers : ProblemReturns(i, answer)
        \/ \E answer \in NtfyAnswers : SolutionReturns(i, answer)

Spec == Init /\ [][Next]_vars

\* Every outbound call returns an answer or a transport error (the client's
\* timeout), and a task whose call has returned is run: an invocation that
\* awaits a call is not left there for ever.  Nothing forces a request to
\* arrive.
Fairness ==
    \A i \in Invs :
        /\ WF_vars(\E answer \in GeminiAnswers : GenerationReturns(i, answer))
        /\ WF_vars(\E answer \in NtfyAnswers : ProblemReturns(i, answer))
        /\ WF_vars(\E answer \in NtfyAnswers : SolutionReturns(i, answer))

SpecLive == Init /\ [][Next]_vars /\ Fairness

----------------------------------------------------------------------------
(* error_response on its own: every AppError is mapped once *)

ErrorDetails ==
    { [text |-> t, status |-> st, body |-> b] :
        t \in {"failed"},
        st \in {400, 429, 500},
        b \in {<<"q", "u", "o", "t", "a">>, <<"k", "e", "y", "-", "A">>, << >>} }

AppErrors == { [kind |-> k, msg |-> m] : k \in ErrorKinds, m \in ErrorDetails }

InitError ==
    /\ eErr \in AppErrors
    /\ eResp = None
    /\ HandlerIdle /\ ParserIdle /\ NotifyIdle

MapError ==
    /\ eResp = None
    /\ eResp' = Some(error_response(eErr))
    /\ UNCHANGED <<eErr, hvars, pvars, nvars>>

NextError == MapError

SpecError == InitError /\ [][NextError]_vars

----------------------------------------------------------------------------
(* send_notification on its own, over prefixes, bodies, delays and answers *)

Repeat(c, n) == [k \in 1..n |-> c]

Prefixes == {ProblemPrefix, SolutionPrefix, << >>}

Bodies ==
    { << >>, Golf, Steps, <<" ", "x", "\r", "\n", "y">>,
      Repeat("a", TitleMax) \o <<"b", "\n", "c">>,
      Repeat("a", TitleMax),
      Repeat("U+00E9", TitleMax) \o <<"b", "\n", "c">> }

DelayTokens ==
    { <<"1", "0", "m">>, <<"2", "h">>, <<"4", "5", "s">>, <<"3", "d">>,
      <<"1", "0", "m", "i", "n", "s">>, <<"a", "b", "c">>, <<"-", "5", "m">>,
      << >>, <<"m">>, <<"1", "0">>, <<"1", "0", "M">> }

Delays == {None} \cup { Some(d) : d \in DelayTokens }

InitNotify ==
    /\ nPrefix \in Prefixes
    /\ nBody \in Bodies
    /\ nDelay \in Delays
    /\ nUp \in NtfyAnswers
    /\ nSent = << >>
    /\ nRes = None
    /\ HandlerIdle /\ ParserIdle /\ ErrorIdle

\* send_notification up to its await: the request is built and sent.
NotifySend ==
    /\ nSent = << >>
    /\ nSent' = << NtfyRequest(config, nPrefix, nBody, nDelay) >>
    /\ UNCHANGED <<nPrefix, nBody, nDelay, nUp, nRes>>
    /\ UNCHANGED <<hvars, pvars, evars>>

\* ntfy has answered: send_notification returns.
NotifyReturns ==
    /\ nSent # << >> /\ nRes = None
    /\ nRes' = Some(NtfyResult(config, nUp))
    /\ UNCHANGED <<nPrefix, nBody, nDelay, nUp, nSent>>
    /\ UNCHANGED <<hvars, pvars, evars>>

NextNotify == NotifySend \/ NotifyReturns

SpecNotify == InitNotify /\ [][NextNotify]_vars

----------------------------------------------------------------------------
(* The parser on its own, over generated texts *)

SeparatorTail == SubSeq(SEPARATOR_MARKER, 4, Len(SEPARATOR_MARKER))

Pieces ==
    {PROBLEM_MARKER, SOLUTION_MARKER, SEPARATOR_MARKER, SeparatorTail, <<" ">>, <<"a">>}

ContentPieces ==
    {<<"a">>, <<" ">>, <<"-", "-", "-">>, PROBLEM_MARKER, SEPARATOR_MARKER}

SeqsUpTo(S, n) == UNION { [1..k -> S] : k \in 0..n }

FreeTexts == { Concat(ps) : ps \in SeqsUpTo(Pieces, MaxPieces) }
Contents == { Concat(ps) : ps \in SeqsUpTo(ContentPieces, MaxContent) }

\* **Problem:** P ---SOLUTION_SEPARATOR--- **Solution:** S
WellFormed(P, S) ==
    Concat(<< PROBLEM_MARKER, <<" ">>, P, <<" ">>, SEPARATOR_MARKER, <<" ">>,
              SOLUTION_MARKER, <<" ">>, S >>)

InitParse ==
    /\ \/ /\ pForm = "free"
          /\ pText \in FreeTexts
          /\ pP = << >> /\ pS = << >>
       \/ /\ pForm = "wellformed"
          /\ pP \in Contents /\ pS \in Contents
          /\ pText = WellFormed(pP, pS)
    /\ pRes = None
    /\ HandlerIdle /\ NotifyIdle /\ ErrorIdle

\* The text of a response part is trimmed (line 117) and parsed.
ParseStep ==
    /\ pRes = None
    /\ pRes' = Some(Parse(Trim(pText)))
    /\ UNCHANGED <<pForm, pP, pS, pText>>
    /\ UNCHANGED <<hvars, nvars, evars>>

NextParse == ParseStep

SpecParse == InitParse /\ [][NextParse]_vars

----------------------------------------------------------------------------
(* The handler over generated texts: one invocation, whose generation call   *)
(* is answered 200 with any of the texts the parser is run on               *)

GeneratedTexts == FreeTexts \cup { WellFormed(P, S) : P \in Contents, S \in Contents }

InitGenerate == HandlerIdle /\ ParserIdle /\ NotifyIdle /\ ErrorIdle

NextGenerate ==
    \/ Trigger(1)
    \/ /\ pc[1] = "generating"
       /\ \E t \in GeneratedTexts : GenerationReturns(1, Http(200, Json(<< << t >> >>)))
    \/ \E answer \in NtfyAnswers : ProblemReturns(1, answer)
    \/ \E answer \in NtfyAnswers : SolutionReturns(1, answer)

SpecGenerate == InitGenerate /\ [][NextGenerate]_vars

----------------------------------------------------------------------------
(* Claims about the trigger handler *)

GenDone(i) == IsSome(genOut[i])
GenResult(i) == Generate(config, Get(genOut[i]))
ProbDone(i) == IsSome(probOut[i])
ProbResult(i) == NtfyResult(config, Get(probOut[i]))
SolDone(i) == IsSome(solOut[i])
SolResult(i) == NtfyResult(config, Get(solOut[i]))

NtfyCalls(i) == SelectSeq(calls[i], LAMBDA c : c.svc = "ntfy")
IsProblemCall(c) == c.svc = "ntfy" /\ StartsWith(c.title, ProblemPrefix)
IsSolutionCall(c) == c.svc = "ntfy" /\ StartsWith(c.title, SolutionPrefix)
HasSolutionCall(i) == \E k \in 1..Len(calls[i]) : IsSolutionCall(calls[i][k])

\* C1: whenever the generation step of an invocation has failed (transport,
\* status, missing text or parse error), the invocation has issued no
\* notification call at all, has received no notification answer, and has
\* answered with the mapping of the generator's error.
C1_GenerationFailureAborts ==
    \A i \in Invs :
        (GenDone(i) /\ ~ GenResult(i).ok) =>
            /\ NtfyCalls(i) = << >>
            /\ ~ ProbDone(i) /\ ~ SolDone(i)
            /\ pc[i] = "done"
            /\ resp[i] = Some(error_response(GenResult(i).err))

C1_Witness ==
    \E i \in Invs :
        /\ GenDone(i) /\ Get(genOut[i]).kind = "http" /\ Get(genOut[i]).status = 500
        /\ pc[i] = "done" /\ Get(resp[i]).status = 502

\* C2: whenever the problem notification of an invocation has failed
\* (transport or non-success status), the invocation has issued no solution
\* notification, and has answered with the mapping of that error.
C2_ProblemFailureAborts ==
    \A i \in Invs :
        (ProbDone(i) /\ ~ ProbResult(i).ok) =>
            /\ ~ HasSolutionCall(i)
            /\ Len(NtfyCalls(i)) = 1
            /\ ~ SolDone(i)
            /\ pc[i] = "done"
            /\ resp[i] = Some(error_response(ProbResult(i).err))

C2_Witness ==
    \E i \in Invs :
        /\ ProbDone(i) /\ Get(probOut[i]).kind = "http" /\ Get(probOut[i]).status = 429
        /\ pc[i] = "done" /\ Len(calls[i]) = 2

\* C3: a solution notification is in the call log only after the problem
\* notification of the same invocation, which has returned success; and when
\* the solution call has returned a non-success status the invocation has
\* answered 502 and its call log is exactly the generation call, the problem
\* notification and the one solution notification: nothing undoes the
\* problem, nothing schedules the solution again.
C3_SolutionAfterProblemNoCompensation ==
    \A i \in Invs :
        /\ \A k \in 1..Len(calls[i]) :
              IsSolutionCall(calls[i][k]) =>
                  /\ ProbDone(i) /\ ProbResult(i).ok
                  /\ \E j \in 1..(k - 1) : IsProblemCall(calls[i][j])
        /\ (SolDone(i) /\ Get(solOut[i]).kind = "http"
                /\ ~ is_success(Get(solOut[i]).status)) =>
              /\ pc[i] = "done"
              /\ Get(resp[i]).status = 502
              /\ calls[i] = << GeminiRequest(config),
                               ProblemRequest(config, Get(est[i])),
                               SolutionRequest(config, Get(est[i])) >>

C3_Witness ==
    \E i \in Invs :
        /\ ProbDone(i) /\ ProbResult(i).ok
        /\ SolDone(i) /\ Get(solOut[i]).kind = "http" /\ Get(solOut[i]).status = 429
        /\ pc[i] = "done" /\ Get(resp[i]).status = 502 /\ Len(calls[i]) = 3

AllStepsOk(i) ==
    /\ GenDone(i) /\ GenResult(i).ok
    /\ ProbDone(i) /\ ProbResult(i).ok
    /\ SolDone(i) /\ SolResult(i).ok

\* C4: an invocation has answered exactly when it is done; its answer is 200
\* if and only if its three steps all succeeded; the 200 answer is the
\* plain-text confirmation carrying the delay 10m, the delay of the solution
\* notification; every other answer is a JSON error with status 500 or 502.
C4_OkIffAllStepsSucceeded ==
    \A i \in Invs :
        /\ IsSome(resp[i]) <=> pc[i] = "done"
        /\ pc[i] = "done" =>
              /\ (Get(resp[i]).status = 200) <=> AllStepsOk(i)
              /\ AllStepsOk(i) =>
                    /\ ~ Get(resp[i]).json
                    /\ Get(resp[i]).body
                          = "Fermi problem sent, solution scheduled for {} delay."
                    /\ Get(resp[i]).args = << <<"1", "0", "m">> >>
                    /\ calls[i][3].xdelay = Some(Get(resp[i]).args[1])
              /\ ~ AllStepsOk(i) =>
                    /\ Get(resp[i]).status \in {500, 502}
                    /\ Get(resp[i]).json

C4_Witness ==
    \E i, j \in Invs :
        /\ pc[i] = "done" /\ AllStepsOk(i) /\ Get(resp[i]).status = 200
        /\ pc[j] = "done" /\ ~ AllStepsOk(j) /\ Get(resp[j]).status = 500

Categories ==
    {"Configuration Error", "Upstream Service Error", "Data Processing Error",
     "Gemini API Error", "Notification Service Error", "IO Error",
     "Content Parsing Error", "Internal Server Error"}

\* C6: the answer to a failed invocation is a JSON string out of a fixed set
\* of categories with nothing formatted into it, and two failed invocations
\* with the same error kind have the same answer, whatever the upstream
\* status, the upstream body and the configured secret were.
C6_ErrorResponseHidesDetail ==
    \A i \in Invs :
        IsSome(herr[i]) =>
            /\ Get(resp[i]).body \in Categories
            /\ Get(resp[i]).args = << >>
            /\ \A j \in Invs :
                  (IsSome(herr[j]) /\ Get(herr[j]).kind = Get(herr[i]).kind) =>
                      resp[j] = resp[i]

C6_Witness ==
    \E i, j \in Invs :
        /\ IsSome(herr[i]) /\ IsSome(herr[j])
        /\ Get(herr[i]).kind = "GeminiApi" /\ Get(herr[j]).kind = "GeminiApi"
        /\ Get(genOut[i]).status = 500 /\ Get(genOut[j]).status = 429
        /\ Get(genOut[i]).body.raw = Some(<<"k", "e", "y", "-", "A">>)
        /\ resp[i] = resp[j]

----------------------------------------------------------------------------
(* Claims about error_response *)

\* C5: the mapping is defined on every error kind and gives one status:
\* 502 for upstream generation, notification and transport errors, 500 for
\* parse, serialization, configuration, I/O and internal errors; never 2xx.
C5_ErrorStatusMapping ==
    /\ eErr.kind \in ErrorKinds
    /\ IsSome(eResp) =>
          LET st == Get(eResp).status IN
          /\ eErr.kind \in {"GeminiApi", "Ntfy", "Reqwest"} => st = 502
          /\ eErr.kind \in {"ParseError", "Serde", "Config", "Io", "Internal"} => st = 500
          /\ ~ is_success(st)

C5_Witness ==
    /\ IsSome(eResp) /\ eErr.kind = "Serde" /\ Get(eResp).status = 500

----------------------------------------------------------------------------
(* Claims about send_notification *)

Digits == {"0", "1", "2", "3", "4", "5", "6", "7", "8", "9"}
Units == {"s", "m", "h", "d"}

\* A number followed by exactly one unit suffix.
IsDurationToken(d) ==
    /\ Len(d) >= 2
    /\ d[Len(d)] \in Units
    /\ \A k \in 1..(Len(d) - 1) : d[k] \in Digits

\* C7: 10m, 2h, 45s and 3d are forwarded as X-Delay; 10mins, abc, -5m and the
\* empty token are not forwarded; a token is forwarded only if it is a number
\* followed by exactly one of s, m, h, d.  (The code forwards every token that
\* ends in s, m, h or d: 10mins and -5m are forwarded.)
C7_DelayValidation ==
    (nSent # << >> /\ IsSome(nDelay)) =>
        LET d == Get(nDelay)
            x == nSent[1].xdelay
        IN
        /\ d \in { <<"1", "0", "m">>, <<"2", "h">>, <<"4", "5", "s">>, <<"3", "d">> }
              => x = Some(d)
        /\ d \in { <<"1", "0", "m", "i", "n", "s">>, <<"a", "b", "c">>,
                   <<"-", "5", "m">>, << >> }
              => x = None
        /\ IsSome(x) => IsDurationToken(d)

\* C8: with a delay token that is empty or does not end in s, m, h or d,
\* send_notification issues the one request it issues with no delay (same
\* title, tags and body, no X-Delay), and it returns success exactly when
\* ntfy answers with a success status.
C8_InvalidDelayIsNoDelay ==
    (IsSome(nDelay) /\ (Get(nDelay) = << >> \/ Get(nDelay)[Len(Get(nDelay))] \notin Units)) =>
        /\ nSent # << >> =>
              /\ nSent = << NtfyRequest(config, nPrefix, nBody, None) >>
              /\ nSent[1].xdelay = None
        /\ IsSome(nRes) =>
              (Get(nRes).ok <=> (nUp.kind = "http" /\ is_success(nUp.status)))

C8_Witness ==
    /\ nDelay = Some(<<"a", "b", "c">>)
    /\ nPrefix = SolutionPrefix /\ nBody = Steps
    /\ Len(nSent) = 1 /\ nSent[1].xdelay = None
    /\ IsSome(nRes) /\ Get(nRes).ok

\* The text of b up to its first newline, all of b when it has none.
FirstLineOf(b) ==
    LET nl == { k \in 1..Len(b) : b[k] = "\n" } IN
    IF nl = {} THEN b
    ELSE SubSeq(b, 1, (CHOOSE k \in nl : \A m \in nl : k <= m) - 1)

\* s when it has at most 100 characters, its first 100 characters otherwise.
Cut100(s) == IF Len(s) > 100 THEN [k \in 1..100 |-> s[k]] ELSE s

\* C14 as stated: for every prefix and body the title sent is the prefix
\* followed by the trimmed first line of the body, cut to 100 characters.
C14_AsStated ==
    nSent # << >> =>
        nSent[1].title = Cut100(nPrefix \o Trim(FirstLineOf(nBody)))

\* C14: for every prefix and every body that is not empty, the title sent is
\* the prefix followed by the trimmed first line of the body, cut to its first
\* 100 characters when it has more, characters counted whatever their bytes;
\* for the empty body the title is the prefix followed by Fermi Notification;
\* the payload sent is the whole body in both cases.
C14_TitleDerivation ==
    nSent # << >> =>
        /\ Len(nSent) = 1
        /\ nSent[1].body = nBody
        /\ nBody # << >> =>
              nSent[1].title = Cut100(nPrefix \o Trim(FirstLineOf(nBody)))
        /\ nBody = << >> =>
              nSent[1].title =
                  nPrefix \o <<"F", "e", "r", "m", "i", " ", "N", "o", "t", "i", "f",
                               "i", "c", "a", "t", "i", "o", "n">>

\* A first line of 101 two-byte characters under the prefix "Problem: ".
C14_Witness ==
    /\ nSent # << >>
    /\ nPrefix = <<"P", "r", "o", "b", "l", "e", "m", ":", " ">>
    /\ Len(FirstLineOf(nBody)) = 101 /\ nBody[1] = "U+00E9"
    /\ Len(nSent[1].title) = 100
    /\ nSent[1].title[100] = "U+00E9"
    /\ Len(nSent[1].body) = 103

----------------------------------------------------------------------------
(* Claims about the parser *)

HasSeparator(s) == Find(s, SEPARATOR_MARKER, 1) # 0

\* C9: for a text **Problem:** P ---SOLUTION_SEPARATOR--- **Solution:** S with
\* P and S free of the separator and not empty once trimmed, the parser
\* succeeds with problem = P trimmed and solution = S trimmed.
C9_ParserRoundTrip ==
    ( /\ pForm = "wellformed" /\ IsSome(pRes)
      /\ Trim(pP) # << >> /\ Trim(pS) # << >>
      /\ ~ HasSeparator(pP) /\ ~ HasSeparator(pS) ) =>
        Get(pRes) = Ok([problem |-> Trim(pP), solution |-> Trim(pS)])

C9_Witness ==
    /\ pForm = "wellformed" /\ IsSome(pRes)
    /\ pP = <<" ", "a">> /\ pS = PROBLEM_MARKER \o <<"-", "-", "-">>
    /\ Get(pRes).ok /\ Get(pRes).val.problem = <<"a">>

\* The places of s where the separator token occurs.
Occurrences(s) ==
    { i \in 1..Len(s) : i + Len(SEPARATOR_MARKER) - 1 <= Len(s)
                          /\ MatchAt(s, SEPARATOR_MARKER, i) }

\* The separator tokens of s found from left to right, each search starting
\* where the previous token ended.
RECURSIVE Matches(_, _)
Matches(s, from) ==
    LET i == Find(s, SEPARATOR_MARKER, from) IN
    IF i = 0 THEN 0 ELSE 1 + Matches(s, i + Len(SEPARATOR_MARKER))

IsPartCountError(r, n) ==
    /\ ~ r.ok /\ r.err.kind = "ParseError"
    /\ r.err.msg = [text |-> "Expected 2 parts, found", n |-> n]

\* C10 as stated: a text in which the separator token does not occur exactly
\* once is rejected with the part-count error.
C10_AsStated ==
    (IsSome(pRes) /\ Cardinality(Occurrences(Trim(pText))) # 1) =>
        /\ ~ Get(pRes).ok
        /\ Get(pRes).err.msg.text = "Expected 2 parts, found"

\* C10: a text in which the separator tokens found from left to right without
\* overlap are not exactly one is rejected with the part-count error, which
\* reports that number plus one; a text in which the separator token occurs
\* at several places is rejected in every case.
C10_PartCount ==
    IsSome(pRes) =>
        LET t == Trim(pText) IN
        /\ Matches(t, 1) # 1 => IsPartCountError(Get(pRes), Matches(t, 1) + 1)
        /\ Cardinality(Occurrences(t)) # 1 => ~ Get(pRes).ok

C10_Witness ==
    /\ IsSome(pRes)
    /\ Cardinality(Occurrences(pText)) = 2 /\ Matches(pText, 1) = 2
    /\ StartsWith(pText, PROBLEM_MARKER)
    /\ IsPartCountError(Get(pRes), 3)

\* The two segments of a text in which one separator token is found.
Segment1(t) == Trim(SubSeq(t, 1, Find(t, SEPARATOR_MARKER, 1) - 1))
Segment2(t) ==
    Trim(SubSeq(t, Find(t, SEPARATOR_MARKER, 1) + Len(SEPARATOR_MARKER), Len(t)))

\* The segment is its marker followed by nothing but white space.
OnlyMarker(segment, marker) ==
    /\ StartsWith(segment, marker)
    /\ \A k \in (Len(marker) + 1)..Len(segment) : segment[k] \in WhiteSpace

\* C11: a text in which the separator token occurs exactly once, and whose
\* trimmed first segment does not start with **Problem:** or whose trimmed
\* second segment does not start with **Solution:**, is rejected with the
\* missing-marker parse error.
C11_MissingMarker ==
    LET t == Trim(pText) IN
    ( /\ IsSome(pRes)
      /\ Cardinality(Occurrences(t)) = 1
      /\ \/ ~ StartsWith(Segment1(t), PROBLEM_MARKER)
         \/ ~ StartsWith(Segment2(t), SOLUTION_MARKER) ) =>
        Get(pRes) = Err(ParseError([text |-> "Missing expected marker(s)"]))

\* The markers are swapped; each segment has content.
C11_Witness ==
    /\ pText = Concat(<< SOLUTION_MARKER, <<"a">>, SEPARATOR_MARKER,
                         PROBLEM_MARKER, <<"a">> >>)
    /\ pRes = Some(Err(ParseError([text |-> "Missing expected marker(s)"])))

\* C12 as stated: a text with two segments, one of which is only its marker,
\* is rejected with the empty-content parse error.
C12_AsStated ==
    LET t == Trim(pText) IN
    ( /\ IsSome(pRes)
      /\ Matches(t, 1) = 1
      /\ \/ OnlyMarker(Segment1(t), PROBLEM_MARKER)
         \/ OnlyMarker(Segment2(t), SOLUTION_MARKER) ) =>
        Get(pRes) = Err(ParseError([text |-> "Parsed problem or solution empty."]))

\* C12: a text with two segments, each starting with its marker, one of which
\* is only its marker, is rejected with the empty-content parse error; when
\* the other segment does not start with its marker the text is rejected
\* with the missing-marker parse error.
C12_EmptyContent ==
    LET t == Trim(pText) IN
    ( /\ IsSome(pRes)
      /\ Matches(t, 1) = 1
      /\ \/ OnlyMarker(Segment1(t), PROBLEM_MARKER)
         \/ OnlyMarker(Segment2(t), SOLUTION_MARKER) ) =>
        IF StartsWith(Segment1(t), PROBLEM_MARKER)
              /\ StartsWith(Segment2(t), SOLUTION_MARKER)
        THEN Get(pRes) = Err(ParseError([text |-> "Parsed problem or solution empty."]))
        ELSE Get(pRes) = Err(ParseError([text |-> "Missing expected marker(s)"]))

\* Only the solution is empty.
C12_Witness ==
    /\ pText = Concat(<< PROBLEM_MARKER, <<"a">>, SEPARATOR_MARKER,
                         SOLUTION_MARKER, <<" ">> >>)
    /\ pRes = Some(Err(ParseError([text |-> "Parsed problem or solution empty."])))

----------------------------------------------------------------------------
(* Claims about the parser's output in the handler *)

NoOuterWhiteSpace(s) ==
    s # << >> => (s[1] \notin WhiteSpace /\ s[Len(s)] \notin WhiteSpace)

\* The segment without the marker it starts with.
AfterMarker(segment, marker) == SubSeq(segment, Len(marker) + 1, Len(segment))

\* The text of the first part of the first candidate of a 200 answer.
AnswerText(answer) == Trim(Get(ResponseJson(answer.body))[1][1])

\* C13: whenever an invocation holds an estimation, its problem and its
\* solution are not empty, neither starts or ends with white space, each is
\* the trimmed rest of its segment after the marker the segment starts with;
\* and every notification the invocation has issued has a non-empty body,
\* the problem or the solution of that estimation.
C13_ParserOutputGuarantee ==
    \A i \in Invs :
        IsSome(est[i]) =>
            LET e == Get(est[i])
                t == AnswerText(Get(genOut[i]))
            IN
            /\ e.problem # << >> /\ e.solution # << >>
            /\ NoOuterWhiteSpace(e.problem) /\ NoOuterWhiteSpace(e.solution)
            /\ StartsWith(Segment1(t), PROBLEM_MARKER)
            /\ StartsWith(Segment2(t), SOLUTION_MARKER)
            /\ e.problem = Trim(AfterMarker(Segment1(t), PROBLEM_MARKER))
            /\ e.solution = Trim(AfterMarker(Segment2(t), SOLUTION_MARKER))
            /\ \A k \in 1..Len(calls[i]) :
                  calls[i][k].svc = "ntfy" =>
                      /\ calls[i][k].body # << >>
                      /\ calls[i][k].body \in {e.problem, e.solution}

C13_Witness ==
    /\ IsSome(est[1])
    /\ AnswerText(Get(genOut[1])) = WellFormed(<<" ", "a">>, <<"a">> \o PROBLEM_MARKER)
    /\ Len(calls[1]) = 3
    /\ calls[1][2].body = <<"a">>
    /\ calls[1][3].body = <<"a">> \o PROBLEM_MARKER

----------------------------------------------------------------------------
(* Claims about the order, the number and the independence of the calls *)

\* C15: the call log of a fully successful invocation is one generation
\* call, then the problem notification, titled Problem: .. and without
\* X-Delay, then the solution notification, titled Solution: .. and with
\* X-Delay 10m; in every invocation, whatever its outcome, a problem
\* notification has no X-Delay and a solution notification has X-Delay 10m.
C15_CallOrder ==
    \A i \in Invs :
        /\ AllStepsOk(i) =>
              /\ Len(calls[i]) = 3
              /\ calls[i][1].svc = "gemini"
              /\ calls[i][2].svc = "ntfy"
              /\ StartsWith(calls[i][2].title, <<"P", "r", "o", "b", "l", "e", "m", ":", " ">>)
              /\ calls[i][2].body = Get(est[i]).problem
              /\ calls[i][2].xdelay = None
              /\ calls[i][3].svc = "ntfy"
              /\ StartsWith(calls[i][3].title,
                            <<"S", "o", "l", "u", "t", "i", "o", "n", ":", " ">>)
              /\ calls[i][3].body = Get(est[i]).solution
              /\ calls[i][3].xdelay = Some(<<"1", "0", "m">>)
        /\ \A k \in 1..Len(calls[i]) :
              /\ IsProblemCall(calls[i][k]) => calls[i][k].xdelay = None
              /\ IsSolutionCall(calls[i][k]) => calls[i][k].xdelay = Some(<<"1", "0", "m">>)
              /\ calls[i][k].svc = "ntfy" =>
                    (IsProblemCall(calls[i][k]) \/ IsSolutionCall(calls[i][k]))

C15_Witness ==
    \E i \in Invs :
        /\ AllStepsOk(i) /\ pc[i] = "done"
        /\ calls[i][2].title = <<"P", "r", "o", "b", "l", "e", "m", ":", " ">> \o Golf
        /\ calls[i][3].title = <<"S", "o", "l", "u", "t", "i", "o", "n", ":", " ",
                                 "S", "t", "e", "p">>

CountCalls(i, P(_)) == Cardinality({ k \in 1..Len(calls[i]) : P(calls[i][k]) })
IsGenerationCall(c) == c.svc = "gemini"

\* The answers an invocation has received.
Answered(i) ==
    (IF GenDone(i) THEN 1 ELSE 0) + (IF ProbDone(i) THEN 1 ELSE 0)
        + (IF SolDone(i) THEN 1 ELSE 0)

\* C16: an invocation issues at most one generation call, one problem
\* notification and one solution notification, three calls at most; it has at
\* most one call more than it has answers; and once a step has failed its
\* calls are the calls that were answered, the failed one being the last.
C16_NoRetries ==
    \A i \in Invs :
        /\ CountCalls(i, IsGenerationCall) <= 1
        /\ CountCalls(i, IsProblemCall) <= 1
        /\ CountCalls(i, IsSolutionCall) <= 1
        /\ Len(calls[i]) <= 3
        /\ Len(calls[i]) <= Answered(i) + 1
        /\ (GenDone(i) /\ ~ GenResult(i).ok) => Len(calls[i]) = 1
        /\ (ProbDone(i) /\ ~ ProbResult(i).ok) => Len(calls[i]) = 2
        /\ (SolDone(i) /\ ~ SolResult(i).ok) => Len(calls[i]) = 3
        /\ IsSome(herr[i]) => (pc[i] = "done" /\ Len(calls[i]) = Answered(i))

C16_Witness ==
    \E i, j \in Invs :
        /\ IsSome(herr[i]) /\ Get(genOut[i]).kind = "transport" /\ Len(calls[i]) = 1
        /\ IsSome(herr[j]) /\ ProbDone(j) /\ Get(probOut[j]).kind = "transport"
        /\ Len(calls[j]) = 2

\* All that the model holds of one invocation.
InvState(i) ==
    <<pc[i], genOut[i], est[i], probOut[i], solOut[i], calls[i], herr[i], resp[i]>>

\* The calls and the response of an invocation as its own answers decide them.
OwnCalls(i) ==
    IF pc[i] = "idle" THEN << >>
    ELSE << GeminiRequest(config) >>
           \o (IF GenDone(i) /\ GenResult(i).ok
               THEN << ProblemRequest(config, GenResult(i).val) >>
                      \o (IF ProbDone(i) /\ ProbResult(i).ok
                          THEN << SolutionRequest(config, GenResult(i).val) >>
                          ELSE << >>)
               ELSE << >>)

OwnResponse(i) ==
    IF ~ GenDone(i) THEN None
    ELSE IF ~ GenResult(i).ok THEN Some(error_response(GenResult(i).err))
    ELSE IF ~ ProbDone(i) THEN None
    ELSE IF ~ ProbResult(i).ok THEN Some(error_response(ProbResult(i).err))
    ELSE IF ~ SolDone(i) THEN None
    ELSE IF ~ SolResult(i).ok THEN Some(error_response(SolResult(i).err))
    ELSE Some(OkResponse)

C17_OwnAnswersDecide ==
    \A i \in Invs :
        /\ calls[i] = OwnCalls(i)
        /\ resp[i] = OwnResponse(i)
        /\ AllStepsOk(i) =>
              /\ CountCalls(i, IsProblemCall) = 1
              /\ CountCalls(i, IsSolutionCall) = 1

C17_OneInvocationPerStep ==
    \A i, j \in Invs :
        (i # j /\ InvState(i)' # InvState(i)) => InvState(j)' = InvState(j)

\* C17: in every state of every interleaving the calls and the response of
\* an invocation are those its own answers decide, whatever the other
\* invocations did; a fully successful invocation has its own problem and
\* solution notification, whether or not another invocation sent the same;
\* and a step of one invocation changes nothing of another.
C17_Independence ==
    [] C17_OwnAnswersDecide /\ [][C17_OneInvocationPerStep]_vars

\* Two invocations delivered both notifications of the same estimation: four
\* notifications in all.
C17_Witness ==
    \E i, j \in Invs :
        /\ i # j
        /\ AllStepsOk(i) /\ AllStepsOk(j) /\ est[i] = est[j]
        /\ CountCalls(i, IsProblemCall) + CountCalls(j, IsProblemCall) = 2
        /\ CountCalls(i, IsSolutionCall) + CountCalls(j, IsSolutionCall) = 2

----------------------------------------------------------------------------
(* Claims about the errors of the generation call *)

IsHttp(answer) == answer.kind = "http"
IsJson(answer) == IsHttp(answer) /\ IsSome(answer.body.doc)

\* The document of the answer has no candidate: no candidates key, or an
\* empty list of candidates.
NoCandidate(answer) ==
    /\ IsJson(answer)
    /\ LET cs == Get(answer.body.doc).candidates IN
         ~ IsSome(cs) \/ Len(Get(cs)) = 0

\* The first candidate of the answer has no text part: no content, an empty
\* list of parts, or a first part without text.
NoTextPart(answer) ==
    /\ IsJson(answer)
    /\ ~ NoCandidate(answer)
    /\ LET ps == Get(Get(answer.body.doc).candidates)[1].parts IN
         \/ ~ IsSome(ps)
         \/ Len(Get(ps)) = 0
         \/ ~ IsSome(Get(ps)[1].text)

HasFirstText(answer) ==
    IsJson(answer) /\ ~ NoCandidate(answer) /\ ~ NoTextPart(answer)
FirstText(answer) ==
    Get(Get(Get(Get(answer.body.doc).candidates)[1].parts)[1].text)

\* What the claim says of the stages before and after the envelope.
C18_OuterStages(i) ==
    LET answer == Get(genOut[i])
        r == GenResult(i)
    IN  /\ answer.kind = "transport" => (~ r.ok /\ r.err.kind = "Reqwest")
        /\ (IsHttp(answer) /\ ~ is_success(answer.status)) =>
              /\ ~ r.ok /\ r.err.kind = "GeminiApi"
              /\ r.err.msg.status = answer.status
              /\ r.err.msg.body = error_text(answer.body)
              /\ Get(resp[i]).status = 502
        /\ (r.ok \/ r.err.kind = "ParseError") =>
              /\ IsHttp(answer) /\ is_success(answer.status)
              /\ HasFirstText(answer)
              /\ r = Parse(Trim(FirstText(answer)))
        /\ (~ r.ok /\ r.err.kind = "ParseError") => Get(resp[i]).status = 500

\* C18: the generation call fails with the transport error when no answer
\* arrives, with the upstream generation error (502) on a non-success status,
\* whatever the body, and with the upstream generation error (502) on a
\* success status whose document has no candidate or whose first candidate
\* has no text part; only the text of the first candidate's first part is
\* parsed, and a parse error (500) is the parser's.
C18_ErrorKindByStage ==
    \A i \in Invs :
        GenDone(i) =>
            /\ C18_OuterStages(i)
            /\ LET answer == Get(genOut[i]) IN
                 (IsHttp(answer) /\ is_success(answer.status)
                     /\ (NoCandidate(answer) \/ NoTextPart(answer))) =>
                    /\ ~ GenResult(i).ok
                    /\ GenResult(i).err.kind = "GeminiApi"
                    /\ Get(resp[i]).status = 502

\* C18, as the code has it: the upstream generation error is returned for a
\* document that deserializes and has an empty list of candidates or a first
\* candidate with an empty list of parts; a success answer whose body does
\* not deserialize (not JSON, or a key missing anywhere in the document) is
\* the transport error (502), also when its first candidate's first part has
\* text.
C18_DeserializedEnvelope ==
    \A i \in Invs :
        GenDone(i) =>
            /\ C18_OuterStages(i)
            /\ LET answer == Get(genOut[i])
                   r == GenResult(i)
               IN  (IsHttp(answer) /\ is_success(answer.status)) =>
                     IF ~ IsSome(ResponseJson(answer.body))
                     THEN ~ r.ok /\ r.err.kind = "Reqwest" /\ Get(resp[i]).status = 502
                     ELSE (NoCandidate(answer) \/ NoTextPart(answer)) =>
                             /\ ~ r.ok /\ r.err.kind = "GeminiApi"
                             /\ Get(resp[i]).status = 502

C18_Witness ==
    \E i, j \in Invs :
        /\ GenDone(i) /\ Get(genOut[i]) = Http(200, Json(<< << >> >>))
        /\ GenDone(j) /\ Get(genOut[j]) = Http(200, JsonDocument(DocumentNoCandidates))

----------------------------------------------------------------------------
(* Claims about what the response tells, and about completion *)

FailedAtProblem(i) == ProbDone(i) /\ ~ ProbResult(i).ok
FailedAtSolution(i) == SolDone(i) /\ ~ SolResult(i).ok

\* C19: an invocation that failed at its problem notification and one that
\* failed at its solution notification, the problem delivered, with an error
\* of the same kind, have the same response: status, body and content type,
\* whatever the upstream status and body of the two failures.
C19_PartialSuccessIndistinguishable ==
    \A i, j \in Invs :
        (/\ FailedAtProblem(i)
         /\ FailedAtSolution(j)
         /\ ProbResult(i).err.kind = SolResult(j).err.kind) =>
            /\ IsSome(resp[i]) /\ IsSome(resp[j])
            /\ resp[i] = resp[j]

C19_Witness ==
    \E i, j \in Invs :
        /\ FailedAtProblem(i) /\ ~ SolDone(i)
        /\ FailedAtSolution(j) /\ ProbResult(j).ok
        /\ Get(probOut[i]) = Http(429, [raw |-> Some(<<"s", "l", "o", "w">>)])
        /\ Get(solOut[j]) = Http(500, [raw |-> Some(<<"d", "o", "w", "n">>)])
        /\ ProbResult(i).err # SolResult(j).err
        /\ Len(calls[i]) = 2 /\ Len(calls[j]) = 3
        /\ resp[i] = resp[j]


\* The position of the handler in its three steps.
Rank(p) ==
    CASE p = "idle" -> 0
      [] p = "generating" -> 1
      [] p = "sending_problem" -> 2
      [] p = "sending_solution" -> 3
      [] OTHER -> 4

Responded(i) ==
    /\ pc[i] = "done"
    /\ IsSome(resp[i])
    /\ Get(resp[i]).status \in {200, 500, 502}

\* No loop: a step of an invocation moves it forward, and a response, once
\* given, is the response.
C20_Forward ==
    \A i \in Invs :
        /\ InvState(i)' # InvState(i) => Rank(pc'[i]) > Rank(pc[i])
        /\ IsSome(resp[i]) => resp'[i] = resp[i]

\* No local wait: the handler has answered as soon as the solution
\* notification has returned, and it has a response exactly when it is done.
C20_NoLocalWait ==
    \A i \in Invs :
        /\ SolDone(i) => Responded(i)
        /\ IsSome(resp[i]) <=> pc[i] = "done"
        /\ Rank(pc[i]) <= 4 /\ Len(calls[i]) <= Rank(pc[i])

\* C20: when every outbound call returns, an invocation that has started
\* ends with a response of status 200, 500 or 502; it has one response, which
\* never changes; every step moves it forward in its three steps; and it has
\* answered once the solution notification has returned, without waiting for
\* the delay.
C20_EventuallyCompletes ==
    /\ \A i \in Invs : (pc[i] # "idle") ~> Responded(i)
    /\ [][C20_Forward]_vars
    /\ [] C20_NoLocalWait

C20_Witness ==
    \E i, j \in Invs :
        /\ Responded(i) /\ Get(resp[i]).status = 200 /\ SolDone(i)
        /\ Responded(j) /\ Get(resp[j]).status = 500 /\ ~ ProbDone(j)

====
